---- MODULE Spec2Model ----
(***************************************************************************)
(* Model of bmstu::optional<T> (src/bmstu_optional.h).                     *)
(*                                                                         *)
(* A fixed number of storage slots each hold at most one optional<T>       *)
(* object.  Every public member function is one action.  Besides the two   *)
(* data members data_ and is_initialized_, each slot carries the lifetime  *)
(* facts the C++ abstract machine knows but the bytes do not: whether the  *)
(* optional object itself exists, and whether a constructed T is live in   *)
(* data_.  The calls of T's special member functions made by the last      *)
(* operation are recorded in `events`, and the slots as they were before   *)
(* the operation in `pre`.  While no operation has exited by an exception  *)
(* of T, `balance` counts the T objects constructed so far minus the       *)
(* destructor calls made so far; `threw` tells that one has.               *)
(***************************************************************************)
EXTENDS Integers, Sequences, FiniteSets, TLC

\* Number of optional<T> objects the program works with.
NumOpt == 2
\* T's values are 0..MaxVal; 0 is also the value a moved-from T may be left with.
MaxVal == 2

Slots == 1..NumOpt
TValues == 0..MaxVal
\* Content of data_ while no T is live in it (uninitialized bytes).
NoT == -1
\* "no other operand" in the record of the last operation: not a slot.
NoSlot == NumOpt + 1

VARIABLES opt, pre, last, events, pc, balance, threw

vars == <<opt, pre, last, events, pc, balance, threw>>

\* A slot in which no optional object exists.
NonExistent ==
  [exists |-> FALSE, is_initialized_ |-> FALSE, live |-> FALSE, val |-> NoT]

\* The members with is_initialized_ initialized to true.
DefaultMembers_engaged ==
  [exists |-> TRUE, is_initialized_ |-> TRUE, live |-> FALSE, val |-> NoT]

\* The members right after their default member initializers ran:
\* data_ is left uninitialized, is_initialized_ = false.
DefaultMembers ==
  [exists |-> TRUE, is_initialized_ |-> FALSE, live |-> FALSE, val |-> NoT]

\* One call of a special member function of T on the T in slot s.
Ev(kind, s) == <<kind, s>>

\* The calls that start the lifetime of a T.
CtorKinds == {"ctor", "copy_ctor", "move_ctor"}

\* Number of calls of the given kinds among the calls ev.
Count(ev, kinds) == Cardinality({i \in 1..Len(ev) : ev[i][1] \in kinds})

\* Constructions minus destructions among the calls ev.
Net(ev) == Count(ev, CtorKinds) - Count(ev, {"dtor"})

\* balance stays within these limits in every run that is counted.
BalanceOk(b) == b >= 0 - (NumOpt + 1) /\ b <= NumOpt + 1

NoOp ==
  [op |-> "none", self |-> NoSlot, other |-> NoSlot, arg |-> NoT,
   exc |-> "none", ret |-> NoT, retb |-> FALSE]

Op(name, s, o, a, e, r, b) ==
  [op |-> name, self |-> s, other |-> o, arg |-> a,
   exc |-> e, ret |-> r, retb |-> b]

(***************************************************************************)
(* The type parameter T.  A value of T is a number; copying yields an      *)
(* equal value; moving yields the source's value and leaves the source     *)
(* with a valid but unspecified value (unchanged, as for int, or 0, as an  *)
(* emptied std::vector).  Reading data_ as a T while no T is live there    *)
(* is undefined and may observe any value.                                 *)
(***************************************************************************)
ReadT(c) == IF c.live THEN {c.val} ELSE TValues

MovedFrom(v) == {v, 0}

\* T(args...): the value constructed from the constructor argument.
MakeT(a) == a

\* new(data_) T(v): starts the lifetime of a T with value v in data_.
PlacementNew(c, v) == [c EXCEPT !.live = TRUE, !.val = v]

\* The T in data_ is assigned the value v.  Assignment ends or starts no
\* lifetime; on storage without a live T it is undefined and leaves the
\* storage without one.
AssignT(c, v) == IF c.live THEN [c EXCEPT !.val = v] ELSE c

\* The T in data_ after it was moved from.
MoveOut(c, v) == IF c.live THEN [c EXCEPT !.val = v] ELSE c

\* reinterpret_cast<pointer>(data_)->~T(): ends the lifetime of the T.
DestroyT(c) == [c EXCEPT !.live = FALSE, !.val = NoT]

(***************************************************************************)
(* Member functions that are deterministic in the object's state.          *)
(***************************************************************************)

\* has_value() that does not look at is_initialized_.
has_value_always(c) == TRUE

\* bool has_value()
has_value(c) == c.is_initialized_

\* value() without its engagement check.
value_unchecked(c) == "none"

\* value() & / value() const &: the engagement check.
value(c) == IF ~c.is_initialized_ THEN "bad_optional_access" ELSE "none"

\* rvalue_reference operator*() &&: the engagement check.
deref_rvalue(c) ==
  IF ~c.is_initialized_ THEN "bad_optional_access" ELSE "none"

\* reset() that clears is_initialized_ without calling ~T().
reset_nodtor(c, s) ==
  IF c.is_initialized_
    THEN [obj |-> [c EXCEPT !.is_initialized_ = FALSE], ev |-> <<>>]
    ELSE [obj |-> c, ev |-> <<>>]

\* reset() that destroys the T but leaves is_initialized_ set.
reset_keepflag(c, s) ==
  IF c.is_initialized_
    THEN [obj |-> DestroyT(c), ev |-> <<Ev("dtor", s)>>]
    ELSE [obj |-> c, ev |-> <<>>]

\* void reset(): the object afterwards and the destructor calls made.
reset(c, s) ==
  IF c.is_initialized_
    THEN [obj |-> [DestroyT(c) EXCEPT !.is_initialized_ = FALSE],
          ev |-> <<Ev("dtor", s)>>]
    ELSE [obj |-> c, ev |-> <<>>]

\* ~optional() that calls ~T() without looking at is_initialized_.
destructor_unconditional(c, s) == <<Ev("dtor", s)>>

\* ~optional(): the destructor calls made; the object is gone afterwards.
destructor(c, s) ==
  IF c.is_initialized_ THEN <<Ev("dtor", s)>> ELSE <<>>

\* emplace() that constructs over the old T without destroying it.
emplace_noreset(c, s, a, thr) ==
  LET flagged == [c EXCEPT !.is_initialized_ = TRUE]
  IN IF thr
       THEN [obj |-> flagged, ev |-> <<Ev("ctor", s)>>, exc |-> "T"]
       ELSE [obj |-> PlacementNew(flagged, MakeT(a)),
             ev |-> <<Ev("ctor", s)>>, exc |-> "none"]

\* template<typename ...Args> void emplace(Args &&...args), with a the
\* constructor argument and thr telling whether T's constructor throws.
emplace(c, s, a, thr) ==
  LET r == IF c.is_initialized_ THEN reset(c, s) ELSE [obj |-> c, ev |-> <<>>]
      flagged == [r.obj EXCEPT !.is_initialized_ = TRUE]
  IN IF thr
       THEN [obj |-> flagged, ev |-> r.ev \o <<Ev("ctor", s)>>, exc |-> "T"]
       ELSE [obj |-> PlacementNew(flagged, MakeT(a)),
             ev |-> r.ev \o <<Ev("ctor", s)>>, exc |-> "none"]

\* What a member function that got no further than a failed engagement
\* check of an internal value() call leaves behind.
Raised(c) == [obj |-> c, ev |-> <<>>, exc |-> "bad_optional_access"]

\* optional(const optional &other) that constructs the copy but never sets
\* is_initialized_.
copy_ctor_noflag(o, s, v, thr, u) ==
  LET c == DefaultMembers
  IN IF o.is_initialized_
       THEN IF thr
              THEN [obj |-> c, ev |-> <<Ev("copy_ctor", s)>>, exc |-> "T"]
              ELSE [obj |-> PlacementNew(c, v),
                    ev |-> <<Ev("copy_ctor", s)>>, exc |-> "none"]
       ELSE [obj |-> c, ev |-> <<>>, exc |-> "none"]

\* optional(const optional &other).  v is the value read through
\* other.value(), thr whether T's copy constructor or assignment throws,
\* u the value a T is left with when its assignment throws.
copy_ctor(o, s, v, thr, u) ==
  LET c == DefaultMembers
  IN IF c.is_initialized_ /\ o.is_initialized_
       THEN IF value(c) # "none" \/ value(o) # "none" THEN Raised(c)
            ELSE IF thr
              THEN [obj |-> AssignT(c, u), ev |-> <<Ev("copy_assign", s)>>,
                    exc |-> "T"]
              ELSE [obj |-> AssignT(c, v), ev |-> <<Ev("copy_assign", s)>>,
                    exc |-> "none"]
     ELSE IF ~c.is_initialized_ /\ o.is_initialized_
       THEN IF value(o) # "none" THEN Raised(c)
            ELSE IF thr
              THEN [obj |-> c, ev |-> <<Ev("copy_ctor", s)>>, exc |-> "T"]
              ELSE [obj |-> [PlacementNew(c, v) EXCEPT !.is_initialized_ = TRUE],
                    ev |-> <<Ev("copy_ctor", s)>>, exc |-> "none"]
     ELSE IF c.is_initialized_ /\ ~o.is_initialized_
       THEN [obj |-> reset(c, s).obj, ev |-> reset(c, s).ev, exc |-> "none"]
     ELSE [obj |-> c, ev |-> <<>>, exc |-> "none"]

\* optional(optional &&other) that clears the source's is_initialized_
\* after moving its T.
move_ctor_clears_source(o, s, v, thr, u, m) ==
  LET c == DefaultMembers
  IN IF o.is_initialized_
       THEN IF thr
              THEN [obj |-> c, src |-> MoveOut(o, m),
                    ev |-> <<Ev("move_ctor", s)>>, exc |-> "T"]
              ELSE [obj |-> [PlacementNew(c, v) EXCEPT !.is_initialized_ = TRUE],
                    src |-> [MoveOut(o, m) EXCEPT !.is_initialized_ = FALSE],
                    ev |-> <<Ev("move_ctor", s)>>, exc |-> "none"]
       ELSE [obj |-> c, src |-> o, ev |-> <<>>, exc |-> "none"]

\* optional(optional &&other) noexcept.  m is the value the source's T is
\* left with after it was moved from.
move_ctor(o, s, v, thr, u, m) ==
  LET c == DefaultMembers
  IN IF c.is_initialized_ /\ o.is_initialized_
       THEN IF value(c) # "none" \/ value(o) # "none"
              THEN Raised(c) @@ [src |-> o]
            ELSE IF thr
              THEN [obj |-> AssignT(c, u), src |-> MoveOut(o, m),
                    ev |-> <<Ev("move_assign", s)>>, exc |-> "T"]
              ELSE [obj |-> AssignT(c, v), src |-> MoveOut(o, m),
                    ev |-> <<Ev("move_assign", s)>>, exc |-> "none"]
     ELSE IF ~c.is_initialized_ /\ o.is_initialized_
       THEN IF value(o) # "none" THEN Raised(c) @@ [src |-> o]
            ELSE IF thr
              THEN [obj |-> c, src |-> MoveOut(o, m),
                    ev |-> <<Ev("move_ctor", s)>>, exc |-> "T"]
              ELSE [obj |-> [PlacementNew(c, v) EXCEPT !.is_initialized_ = TRUE],
                    src |-> MoveOut(o, m),
                    ev |-> <<Ev("move_ctor", s)>>, exc |-> "none"]
     ELSE IF c.is_initialized_ /\ ~o.is_initialized_
       THEN [obj |-> reset(c, s).obj, src |-> o, ev |-> reset(c, s).ev,
             exc |-> "none"]
     ELSE [obj |-> c, src |-> o, ev |-> <<>>, exc |-> "none"]

\* explicit optional(const value_type &value)
value_copy_ctor(s, v, thr) ==
  LET c == [DefaultMembers EXCEPT !.is_initialized_ = TRUE]
  IN IF thr
       THEN [obj |-> c, ev |-> <<Ev("copy_ctor", s)>>, exc |-> "T"]
       ELSE [obj |-> PlacementNew(c, v), ev |-> <<Ev("copy_ctor", s)>>,
             exc |-> "none"]

\* optional(value_type &&value) without std::move: T is copy-constructed.
value_move_ctor_copies(s, v, thr) ==
  LET c == [DefaultMembers EXCEPT !.is_initialized_ = TRUE]
  IN IF thr
       THEN [obj |-> c, ev |-> <<Ev("copy_ctor", s)>>, exc |-> "T"]
       ELSE [obj |-> PlacementNew(c, v), ev |-> <<Ev("copy_ctor", s)>>,
             exc |-> "none"]

\* explicit optional(value_type &&value)
value_move_ctor(s, v, thr) ==
  LET c == [DefaultMembers EXCEPT !.is_initialized_ = TRUE]
  IN IF thr
       THEN [obj |-> c, ev |-> <<Ev("move_ctor", s)>>, exc |-> "T"]
       ELSE [obj |-> PlacementNew(c, v), ev |-> <<Ev("move_ctor", s)>>,
             exc |-> "none"]

\* operator=(const value_type &) that constructs into a disengaged
\* container without setting is_initialized_.
value_copy_assign_noflag(c, s, v, thr, u) ==
  IF c.is_initialized_
    THEN IF thr
           THEN [obj |-> AssignT(c, u), ev |-> <<Ev("copy_assign", s)>>,
                 exc |-> "T"]
           ELSE [obj |-> AssignT(c, v), ev |-> <<Ev("copy_assign", s)>>,
                 exc |-> "none"]
    ELSE IF thr
      THEN [obj |-> c, ev |-> <<Ev("copy_ctor", s)>>, exc |-> "T"]
      ELSE [obj |-> PlacementNew(c, v),
            ev |-> <<Ev("copy_ctor", s)>>, exc |-> "none"]

\* optional &operator=(const value_type &val)
value_copy_assign(c, s, v, thr, u) ==
  IF c.is_initialized_
    THEN IF value(c) # "none" THEN Raised(c)
         ELSE IF thr
           THEN [obj |-> AssignT(c, u), ev |-> <<Ev("copy_assign", s)>>,
                 exc |-> "T"]
           ELSE [obj |-> AssignT(c, v), ev |-> <<Ev("copy_assign", s)>>,
                 exc |-> "none"]
    ELSE IF thr
      THEN [obj |-> c, ev |-> <<Ev("copy_ctor", s)>>, exc |-> "T"]
      ELSE [obj |-> [PlacementNew(c, v) EXCEPT !.is_initialized_ = TRUE],
            ev |-> <<Ev("copy_ctor", s)>>, exc |-> "none"]

\* operator=(value_type &&) that destroys the contained T and constructs a
\* new one instead of assigning to it.
value_move_assign_reconstruct(c, s, v, thr, u) ==
  LET r == reset(c, s)
  IN IF thr
       THEN [obj |-> r.obj, ev |-> r.ev \o <<Ev("move_ctor", s)>>,
             exc |-> "T"]
       ELSE [obj |-> [PlacementNew(r.obj, v) EXCEPT !.is_initialized_ = TRUE],
             ev |-> r.ev \o <<Ev("move_ctor", s)>>, exc |-> "none"]

\* operator=(value_type &&) that sets is_initialized_ before constructing
\* into a disengaged container, as emplace does.
value_move_assign_flagfirst(c, s, v, thr, u) ==
  IF c.is_initialized_
    THEN IF thr
           THEN [obj |-> AssignT(c, u), ev |-> <<Ev("move_assign", s)>>,
                 exc |-> "T"]
           ELSE [obj |-> AssignT(c, v), ev |-> <<Ev("move_assign", s)>>,
                 exc |-> "none"]
    ELSE IF thr
      THEN [obj |-> [c EXCEPT !.is_initialized_ = TRUE],
            ev |-> <<Ev("move_ctor", s)>>, exc |-> "T"]
      ELSE [obj |-> [PlacementNew(c, v) EXCEPT !.is_initialized_ = TRUE],
            ev |-> <<Ev("move_ctor", s)>>, exc |-> "none"]

\* optional &operator=(value_type &&val)
value_move_assign(c, s, v, thr, u) ==
  IF c.is_initialized_
    THEN IF value(c) # "none" THEN Raised(c)
         ELSE IF thr
           THEN [obj |-> AssignT(c, u), ev |-> <<Ev("move_assign", s)>>,
                 exc |-> "T"]
           ELSE [obj |-> AssignT(c, v), ev |-> <<Ev("move_assign", s)>>,
                 exc |-> "none"]
    ELSE IF thr
      THEN [obj |-> c, ev |-> <<Ev("move_ctor", s)>>, exc |-> "T"]
      ELSE [obj |-> [PlacementNew(c, v) EXCEPT !.is_initialized_ = TRUE],
            ev |-> <<Ev("move_ctor", s)>>, exc |-> "none"]

\* The transfer of operator=(const optional &) whose first branch tests
\* only is_initialized_ of *this, so other.value() is called on a disengaged
\* other.
copy_assign_transfer_unguarded(c, o, s, v, thr, u) ==
  IF c.is_initialized_
    THEN IF value(c) # "none" \/ value(o) # "none" THEN Raised(c)
         ELSE IF thr
           THEN [obj |-> AssignT(c, u), ev |-> <<Ev("copy_assign", s)>>,
                 exc |-> "T"]
           ELSE [obj |-> AssignT(c, v), ev |-> <<Ev("copy_assign", s)>>,
                 exc |-> "none"]
  ELSE IF ~c.is_initialized_ /\ o.is_initialized_
    THEN IF value(o) # "none" THEN Raised(c)
         ELSE IF thr
           THEN [obj |-> c, ev |-> <<Ev("copy_ctor", s)>>, exc |-> "T"]
           ELSE [obj |-> [PlacementNew(c, v) EXCEPT !.is_initialized_ = TRUE],
                 ev |-> <<Ev("copy_ctor", s)>>, exc |-> "none"]
  ELSE [obj |-> c, ev |-> <<>>, exc |-> "none"]

\* The transfer of operator=(const optional &) whose third branch, other
\* disengaged and *this engaged, forgets to reset().
copy_assign_transfer_noreset(c, o, s, v, thr, u) ==
  IF c.is_initialized_ /\ o.is_initialized_
    THEN IF thr
           THEN [obj |-> AssignT(c, u), ev |-> <<Ev("copy_assign", s)>>,
                 exc |-> "T"]
           ELSE [obj |-> AssignT(c, v), ev |-> <<Ev("copy_assign", s)>>,
                 exc |-> "none"]
  ELSE IF ~c.is_initialized_ /\ o.is_initialized_
    THEN IF thr
           THEN [obj |-> c, ev |-> <<Ev("copy_ctor", s)>>, exc |-> "T"]
           ELSE [obj |-> [PlacementNew(c, v) EXCEPT !.is_initialized_ = TRUE],
                 ev |-> <<Ev("copy_ctor", s)>>, exc |-> "none"]
  ELSE [obj |-> c, ev |-> <<>>, exc |-> "none"]

\* optional &operator=(const optional &other), after the self-assignment
\* test: the three-way transfer.
copy_assign_transfer(c, o, s, v, thr, u) ==
  IF c.is_initialized_ /\ o.is_initialized_
    THEN IF value(c) # "none" \/ value(o) # "none" THEN Raised(c)
         ELSE IF thr
           THEN [obj |-> AssignT(c, u), ev |-> <<Ev("copy_assign", s)>>,
                 exc |-> "T"]
           ELSE [obj |-> AssignT(c, v), ev |-> <<Ev("copy_assign", s)>>,
                 exc |-> "none"]
  ELSE IF ~c.is_initialized_ /\ o.is_initialized_
    THEN IF value(o) # "none" THEN Raised(c)
         ELSE IF thr
           THEN [obj |-> c, ev |-> <<Ev("copy_ctor", s)>>, exc |-> "T"]
           ELSE [obj |-> [PlacementNew(c, v) EXCEPT !.is_initialized_ = TRUE],
                 ev |-> <<Ev("copy_ctor", s)>>, exc |-> "none"]
  ELSE IF c.is_initialized_ /\ ~o.is_initialized_
    THEN [obj |-> reset(c, s).obj, ev |-> reset(c, s).ev, exc |-> "none"]
  ELSE [obj |-> c, ev |-> <<>>, exc |-> "none"]

\* operator=(const optional &) without its (this == &other) test.
copy_assign_noself(c, o, same, s, v, thr, u) ==
  copy_assign_transfer(c, o, s, v, thr, u)

\* optional &operator=(const optional &other); same is (this == &other).
copy_assign(c, o, same, s, v, thr, u) ==
  IF same
    THEN [obj |-> c, ev |-> <<>>, exc |-> "none"]
    ELSE copy_assign_transfer(c, o, s, v, thr, u)

\* optional &operator=(optional &&other).  There is no (this == &other)
\* test: when other is *this, obj and src describe the same object and the
\* T is both the target and the moved-from source of its own assignment, so
\* it ends with the moved-from value m.
move_assign(c, o, same, s, v, thr, u, m) ==
  IF c.is_initialized_ /\ o.is_initialized_
    THEN IF value(c) # "none" \/ value(o) # "none"
           THEN Raised(c) @@ [src |-> o]
         ELSE IF thr
           THEN [obj |-> AssignT(c, IF same THEN m ELSE u),
                 src |-> MoveOut(o, m),
                 ev |-> <<Ev("move_assign", s)>>, exc |-> "T"]
           ELSE [obj |-> AssignT(c, IF same THEN m ELSE v),
                 src |-> MoveOut(o, m),
                 ev |-> <<Ev("move_assign", s)>>, exc |-> "none"]
  ELSE IF ~c.is_initialized_ /\ o.is_initialized_
    THEN IF value(o) # "none" THEN Raised(c) @@ [src |-> o]
         ELSE IF thr
           THEN [obj |-> c, src |-> MoveOut(o, m),
                 ev |-> <<Ev("move_ctor", s)>>, exc |-> "T"]
           ELSE [obj |-> [PlacementNew(c, v) EXCEPT !.is_initialized_ = TRUE],
                 src |-> MoveOut(o, m),
                 ev |-> <<Ev("move_ctor", s)>>, exc |-> "none"]
  ELSE IF c.is_initialized_ /\ ~o.is_initialized_
    THEN [obj |-> reset(c, s).obj, src |-> o, ev |-> reset(c, s).ev,
          exc |-> "none"]
  ELSE [obj |-> c, src |-> o, ev |-> <<>>, exc |-> "none"]

Init ==
  /\ opt = [s \in Slots |-> NonExistent]
  /\ pre = opt
  /\ last = NoOp
  /\ events = <<>>
  /\ pc = "run"
  /\ balance = 0
  /\ threw = FALSE

\* Every operation ends by recording itself, the slots before it and the
\* calls it made on T.
Done(rec, ev, newopt) ==
  /\ opt' = newopt
  /\ pre' = opt
  /\ last' = rec
  /\ events' = ev
  /\ pc' = pc
  /\ threw' = (threw \/ rec.exc = "T")
  /\ balance' = IF threw' THEN 0 ELSE balance + Net(ev)
  /\ BalanceOk(balance')

\* A constructor that exits by an exception leaves no object behind.
Constructed(s, r) ==
  IF r.exc = "none" THEN [opt EXCEPT ![s] = r.obj] ELSE opt

\* optional() = default;
DefaultCtor(s) ==
  /\ pc = "run"
  /\ ~opt[s].exists
  /\ Done(Op("optional()", s, NoSlot, NoT, "none", NoT, FALSE), <<>>,
          [opt EXCEPT ![s] = DefaultMembers])

\* optional(const optional &other)
CopyCtor(s, o) ==
  /\ pc = "run"
  /\ s # o /\ ~opt[s].exists /\ opt[o].exists
  /\ \E v \in ReadT(opt[o]), thr \in BOOLEAN, u \in TValues :
       LET r == copy_ctor(opt[o], s, v, thr, u)
       IN Done(Op("optional(const optional&)", s, o, NoT, r.exc, NoT, FALSE),
               r.ev, Constructed(s, r))

\* optional(optional &&other) noexcept, T's move constructor not throwing.
MoveCtor(s, o) ==
  /\ pc = "run"
  /\ s # o /\ ~opt[s].exists /\ opt[o].exists
  /\ \E v \in ReadT(opt[o]), u \in TValues :
       \E m \in MovedFrom(v) :
         LET r == move_ctor(opt[o], s, v, FALSE, u, m)
         IN Done(Op("optional(optional&&)", s, o, NoT, r.exc, NoT, FALSE),
                 r.ev, [opt EXCEPT ![s] = r.obj, ![o] = r.src])

\* optional(optional &&other) noexcept, T's move constructor throwing: the
\* exception meets the noexcept boundary and std::terminate ends the program.
MoveCtorTerminate(s, o) ==
  /\ pc = "run"
  /\ s # o /\ ~opt[s].exists /\ opt[o].exists
  /\ \E v \in ReadT(opt[o]), u \in TValues :
       \E m \in MovedFrom(v) :
         LET r == move_ctor(opt[o], s, v, TRUE, u, m)
         IN /\ r.exc # "none"
            /\ opt' = [opt EXCEPT ![o] = r.src]
            /\ pre' = opt
            /\ last' = Op("optional(optional&&)", s, o, NoT, r.exc, NoT, FALSE)
            /\ events' = r.ev
            /\ pc' = "terminated"
            /\ threw' = TRUE
            /\ balance' = 0

\* explicit optional(const value_type &value)
ValueCopyCtor(s, v) ==
  /\ pc = "run"
  /\ ~opt[s].exists
  /\ \E thr \in BOOLEAN :
       LET r == value_copy_ctor(s, v, thr)
       IN Done(Op("optional(const T&)", s, NoSlot, v, r.exc, NoT, FALSE),
               r.ev, Constructed(s, r))

\* explicit optional(value_type &&value)
ValueMoveCtor(s, v) ==
  /\ pc = "run"
  /\ ~opt[s].exists
  /\ \E thr \in BOOLEAN :
       LET r == value_move_ctor(s, v, thr)
       IN Done(Op("optional(T&&)", s, NoSlot, v, r.exc, NoT, FALSE),
               r.ev, Constructed(s, r))

\* optional &operator=(const value_type &val)
ValueCopyAssign(s, v) ==
  /\ pc = "run"
  /\ opt[s].exists
  /\ \E thr \in BOOLEAN, u \in MovedFrom(opt[s].val) :
       LET r == value_copy_assign(opt[s], s, v, thr, u)
       IN Done(Op("operator=(const T&)", s, NoSlot, v, r.exc, NoT, FALSE),
               r.ev, [opt EXCEPT ![s] = r.obj])

\* optional &operator=(value_type &&val)
ValueMoveAssign(s, v) ==
  /\ pc = "run"
  /\ opt[s].exists
  /\ \E thr \in BOOLEAN, u \in MovedFrom(opt[s].val) :
       LET r == value_move_assign(opt[s], s, v, thr, u)
       IN Done(Op("operator=(T&&)", s, NoSlot, v, r.exc, NoT, FALSE),
               r.ev, [opt EXCEPT ![s] = r.obj])

\* optional &operator=(const optional &other); other may be *this.
CopyAssign(s, o) ==
  /\ pc = "run"
  /\ opt[s].exists /\ opt[o].exists
  /\ \E v \in ReadT(opt[o]), thr \in BOOLEAN, u \in MovedFrom(opt[s].val) :
       LET r == copy_assign(opt[s], opt[o], s = o, s, v, thr, u)
       IN Done(Op("operator=(const optional&)", s, o, NoT, r.exc, NoT, FALSE),
               r.ev, [opt EXCEPT ![s] = r.obj])

\* optional &operator=(optional &&other); other may be *this.
MoveAssign(s, o) ==
  /\ pc = "run"
  /\ opt[s].exists /\ opt[o].exists
  /\ \E v \in ReadT(opt[o]), thr \in BOOLEAN, u \in MovedFrom(opt[s].val) :
       \E m \in MovedFrom(v) :
         LET r == move_assign(opt[s], opt[o], s = o, s, v, thr, u, m)
         IN Done(Op("operator=(optional&&)", s, o, NoT, r.exc, NoT, FALSE),
                 r.ev,
                 IF s = o THEN [opt EXCEPT ![s] = r.obj]
                          ELSE [opt EXCEPT ![s] = r.obj, ![o] = r.src])

\* reference operator*() & and const_reference operator*() const &
DerefLvalue(s) ==
  /\ pc = "run"
  /\ opt[s].exists
  /\ \E v \in ReadT(opt[s]) :
       Done(Op("operator*()&", s, NoSlot, NoT, "none", v, FALSE), <<>>, opt)

\* pointer operator->() and const_pointer operator->() const; ret is the
\* value seen through the returned pointer.
Arrow(s) ==
  /\ pc = "run"
  /\ opt[s].exists
  /\ \E v \in ReadT(opt[s]) :
       Done(Op("operator->", s, NoSlot, NoT, "none", v, FALSE), <<>>, opt)

\* rvalue_reference operator*() &&
DerefRvalue(s) ==
  /\ pc = "run"
  /\ opt[s].exists
  /\ LET e == deref_rvalue(opt[s])
     IN \E v \in ReadT(opt[s]) :
          Done(Op("operator*()&&", s, NoSlot, NoT, e,
                  IF e = "none" THEN v ELSE NoT, FALSE), <<>>, opt)

\* reference value() & and const_reference value() const &
Value(s) ==
  /\ pc = "run"
  /\ opt[s].exists
  /\ LET e == value(opt[s])
     IN \E v \in ReadT(opt[s]) :
          Done(Op("value", s, NoSlot, NoT, e,
                  IF e = "none" THEN v ELSE NoT, FALSE), <<>>, opt)

\* bool has_value()
HasValue(s) ==
  /\ pc = "run"
  /\ opt[s].exists
  /\ Done(Op("has_value", s, NoSlot, NoT, "none", NoT, has_value(opt[s])),
          <<>>, opt)

\* void emplace(Args &&...args)
Emplace(s, a) ==
  /\ pc = "run"
  /\ opt[s].exists
  /\ \E thr \in BOOLEAN :
       LET r == emplace(opt[s], s, a, thr)
       IN Done(Op("emplace", s, NoSlot, a, r.exc, NoT, FALSE), r.ev,
               [opt EXCEPT ![s] = r.obj])

\* void reset()
Reset(s) ==
  /\ pc = "run"
  /\ opt[s].exists
  /\ LET r == reset(opt[s], s)
     IN Done(Op("reset", s, NoSlot, NoT, "none", NoT, FALSE), r.ev,
             [opt EXCEPT ![s] = r.obj])

\* ~optional()
Destructor(s) ==
  /\ pc = "run"
  /\ opt[s].exists
  /\ Done(Op("~optional", s, NoSlot, NoT, "none", NoT, FALSE),
          destructor(opt[s], s),
          [opt EXCEPT ![s] = NonExistent])

Next ==
  \/ \E s \in Slots : DefaultCtor(s)
  \/ \E s, o \in Slots : CopyCtor(s, o)
  \/ \E s, o \in Slots : MoveCtor(s, o)
  \/ \E s, o \in Slots : MoveCtorTerminate(s, o)
  \/ \E s \in Slots, v \in TValues : ValueCopyCtor(s, v)
  \/ \E s \in Slots, v \in TValues : ValueMoveCtor(s, v)
  \/ \E s \in Slots, v \in TValues : ValueCopyAssign(s, v)
  \/ \E s \in Slots, v \in TValues : ValueMoveAssign(s, v)
  \/ \E s, o \in Slots : CopyAssign(s, o)
  \/ \E s, o \in Slots : MoveAssign(s, o)
  \/ \E s \in Slots : DerefLvalue(s)
  \/ \E s \in Slots : Arrow(s)
  \/ \E s \in Slots : DerefRvalue(s)
  \/ \E s \in Slots : Value(s)
  \/ \E s \in Slots : HasValue(s)
  \/ \E s \in Slots, a \in TValues : Emplace(s, a)
  \/ \E s \in Slots : Reset(s)
  \/ \E s \in Slots : Destructor(s)

Spec == Init /\ [][Next]_vars

(***************************************************************************)
(* Properties.  `last` names the operation that led to the current state,  *)
(* `pre` the slots before it and `opt` the slots after it.                 *)
(***************************************************************************)

\* The flag and the lifetime of the T agree: the container is properly
\* engaged or properly disengaged.
WellFormed(c) == c.is_initialized_ <=> c.live

IsCopyAssign == last.op = "operator=(const optional&)"
IsMoveAssign == last.op = "operator=(optional&&)"

\* C1: at every operation boundary, for every existing container, the
\* engagement flag is true if and only if a live, constructed T is in the
\* container's storage.
C1_FlagIffLiveT ==
  \A s \in Slots : opt[s].exists => (opt[s].is_initialized_ <=> opt[s].live)

\* C2: when T's constructor throws during emplace, the container is left
\* disengaged (has_value() is false), whatever its state before the call.
C2_EmplaceThrowLeavesDisengaged ==
  (last.op = "emplace" /\ last.exc = "T") => ~has_value(opt[last.self])

\* C3: value() and the rvalue operator* raise bad_optional_access on a
\* disengaged container and leave it disengaged with no T constructed or
\* destroyed; on an engaged container they raise nothing and yield the
\* contained value.
C3_CheckedAccess ==
  last.op \in {"value", "operator*()&&"} =>
    LET c == pre[last.self]
    IN /\ opt = pre
       /\ events = <<>>
       /\ ~c.is_initialized_ =>
            /\ last.exc = "bad_optional_access"
            /\ ~has_value(opt[last.self])
            /\ ~opt[last.self].live
       /\ c.is_initialized_ =>
            /\ last.exc = "none"
            /\ c.live => last.ret = c.val

C3_Witness ==
  /\ last.op = "value"
  /\ ~pre[last.self].is_initialized_
  /\ last.exc = "bad_optional_access"

\* C4: copy-assigning a container to itself changes neither engagement nor
\* value and invokes no constructor, assignment or destructor of T.
C4_CopySelfAssignNoOp ==
  (IsCopyAssign /\ last.self = last.other) =>
    /\ opt = pre
    /\ events = <<>>
    /\ last.exc = "none"

C4_Witness ==
  /\ IsCopyAssign /\ last.self = last.other
  /\ pre[last.self].is_initialized_ /\ pre[last.self].live

\* C5: move-assigning a container to itself changes neither engagement nor
\* value and invokes no move assignment, constructor or destructor of T.
C5_MoveSelfAssignNoOp ==
  (IsMoveAssign /\ last.self = last.other) =>
    /\ opt = pre
    /\ events = <<>>

\* C6: after a = b or a = std::move(b) on distinct containers that returned
\* normally, a.has_value() equals b's engagement at call time; when b held a
\* value a holds that value; when b was disengaged and a engaged, a's T is
\* destroyed exactly once and a is disengaged.
C6_AssignTransfers ==
  ((IsCopyAssign \/ IsMoveAssign) /\ last.self # last.other
      /\ last.exc = "none") =>
    LET a0 == pre[last.self]
        b0 == pre[last.other]
        a1 == opt[last.self]
    IN /\ has_value(a1) = b0.is_initialized_
       /\ (b0.is_initialized_ /\ WellFormed(b0) /\ WellFormed(a0)) =>
            (a1.live /\ a1.val = b0.val)
       /\ (~b0.is_initialized_ /\ a0.is_initialized_) =>
            /\ events = <<Ev("dtor", last.self)>>
            /\ ~a1.is_initialized_ /\ ~a1.live
       /\ ~(~b0.is_initialized_ /\ a0.is_initialized_) =>
            \A i \in 1..Len(events) : events[i][1] # "dtor"

C6_Witness ==
  /\ IsCopyAssign /\ last.self # last.other /\ last.exc = "none"
  /\ ~pre[last.other].is_initialized_
  /\ pre[last.self].is_initialized_ /\ pre[last.self].live
  /\ events = <<Ev("dtor", last.self)>>

\* C7: copy construction mirrors the source's engagement and value and
\* leaves the source unchanged; and no later operation on one container
\* changes another container, except a move out of that container.
C7_CopyCtorIndependent ==
  /\ (last.op = "optional(const optional&)" /\ last.exc = "none") =>
       LET b0 == pre[last.other]
           a1 == opt[last.self]
       IN /\ opt[last.other] = b0
          /\ a1.exists
          /\ a1.is_initialized_ = b0.is_initialized_
          /\ (b0.is_initialized_ /\ WellFormed(b0)) =>
               (a1.live /\ a1.val = b0.val)
          /\ ~b0.is_initialized_ => ~a1.live
  /\ \A t \in Slots :
       (t # last.self
          /\ ~(t = last.other
                 /\ last.op \in {"optional(optional&&)",
                                 "operator=(optional&&)"})) =>
         opt[t] = pre[t]

C7_Witness ==
  /\ last.op = "optional(const optional&)" /\ last.exc = "none"
  /\ pre[last.other].is_initialized_ /\ pre[last.other].live
  /\ opt[last.self].val = MaxVal

\* C8: after an emplace that did not throw, the container is engaged with
\* the value T(args); a previously contained T was destroyed exactly once,
\* before the new T was constructed.
C8_EmplaceConstructs ==
  (last.op = "emplace" /\ last.exc = "none") =>
    LET a0 == pre[last.self]
        a1 == opt[last.self]
    IN /\ has_value(a1) /\ a1.live
       /\ a1.val = MakeT(last.arg)
       /\ a0.is_initialized_ =>
            events = <<Ev("dtor", last.self), Ev("ctor", last.self)>>
       /\ ~a0.is_initialized_ => events = <<Ev("ctor", last.self)>>

C8_Witness ==
  /\ last.op = "emplace" /\ last.exc = "none"
  /\ pre[last.self].is_initialized_ /\ pre[last.self].live
  /\ pre[last.self].val # MakeT(last.arg)

\* C9: reset() on an engaged container calls T's destructor exactly once
\* and disengages it; on a disengaged container it changes nothing and calls
\* no destructor; a second reset() adds nothing to the first.
C9_ResetIdempotent ==
  /\ last.op = "reset" =>
       LET a0 == pre[last.self]
           a1 == opt[last.self]
       IN /\ a0.is_initialized_ =>
               /\ events = <<Ev("dtor", last.self)>>
               /\ ~has_value(a1) /\ ~a1.live
          /\ ~a0.is_initialized_ => (opt = pre /\ events = <<>>)
  /\ \A s \in Slots :
       opt[s].exists =>
         LET once == reset(opt[s], s)
             twice == reset(once.obj, s)
         IN twice.obj = once.obj /\ twice.ev = <<>>

C9_Witness ==
  /\ last.op = "reset"
  /\ pre[last.self].is_initialized_ /\ pre[last.self].live
  /\ events = <<Ev("dtor", last.self)>>

\* C10: destroying a container calls T's destructor exactly once if the
\* container is engaged and not at all if it is disengaged; a container
\* that was just reset is destroyed without any destructor call.
C10_DestructorOnce ==
  /\ last.op = "~optional" =>
       /\ ~opt[last.self].exists
       /\ events = IF pre[last.self].is_initialized_
                     THEN <<Ev("dtor", last.self)>> ELSE <<>>
  /\ last.op = "reset" => destructor(opt[last.self], last.self) = <<>>

C10_Witness ==
  /\ last.op = "~optional"
  /\ pre[last.self].is_initialized_ /\ pre[last.self].live
  /\ events = <<Ev("dtor", last.self)>>

ValueCtorOps == {"optional(const T&)", "optional(T&&)"}
ValueAssignOps == {"operator=(const T&)", "operator=(T&&)"}
OptAssignOps == {"operator=(const optional&)", "operator=(optional&&)"}
MoveOps ==
  {"optional(T&&)", "optional(optional&&)", "operator=(T&&)",
   "operator=(optional&&)"}
QueryOps ==
  {"has_value", "value", "operator*()&", "operator*()&&", "operator->"}

\* C11: constructing a container from v, or assigning v to a container in
\* either engagement state, by copy or by move, leaves has_value() true and
\* the value v; a default-constructed container is disengaged, and after
\* reset() the container is disengaged and value() raises
\* bad_optional_access.
C11_ValueConstructAssign ==
  /\ (last.op \in ValueCtorOps \cup ValueAssignOps /\ last.exc = "none") =>
       LET a0 == pre[last.self]
           a1 == opt[last.self]
       IN /\ a1.exists /\ has_value(a1)
          /\ WellFormed(a0) => (a1.live /\ a1.val = last.arg)
  /\ last.op = "optional()" => ~has_value(opt[last.self])
  /\ last.op = "reset" =>
       /\ ~has_value(opt[last.self])
       /\ value(opt[last.self]) = "bad_optional_access"

C11_Witness ==
  /\ last.op = "operator=(const T&)" /\ last.exc = "none"
  /\ pre[last.self].exists /\ ~pre[last.self].is_initialized_
  /\ opt[last.self].val = MaxVal

\* C12: a default-constructed container is disengaged and no T has been
\* constructed in its storage.
C12_DefaultDisengaged ==
  last.op = "optional()" =>
    /\ opt[last.self].exists
    /\ ~has_value(opt[last.self])
    /\ ~opt[last.self].live /\ opt[last.self].val = NoT
    /\ events = <<>>

C12_Witness ==
  /\ last.op = "optional()"
  /\ opt[last.self].exists /\ ~pre[last.self].exists

\* C13: bad_optional_access is raised only by value() and the rvalue
\* operator* called on a disengaged container; no other operation raises
\* it, although the copy/move constructors and assignments call value().
C13_OnlyCheckedAccessRaises ==
  last.exc = "bad_optional_access" =>
    /\ last.op \in {"value", "operator*()&&"}
    /\ ~pre[last.self].is_initialized_

C13_Witness ==
  /\ IsCopyAssign /\ last.self # last.other
  /\ pre[last.self].is_initialized_ /\ ~pre[last.other].is_initialized_
  /\ last.exc = "none"

\* C14: after move construction or move assignment from an engaged source
\* the destination is engaged with the source's original value, the source
\* is still engaged and holds a moved-from T of its own, and each of the two
\* T objects is destroyed exactly once by its own container's reset() or
\* destructor.
C14_MoveLeavesSourceEngaged ==
  (last.op \in {"optional(optional&&)", "operator=(optional&&)"}
     /\ last.self # last.other /\ last.exc = "none"
     /\ pre[last.other].is_initialized_) =>
    LET a0 == pre[last.self]
        b0 == pre[last.other]
        a1 == opt[last.self]
        b1 == opt[last.other]
    IN /\ has_value(a1) /\ has_value(b1)
       /\ (WellFormed(a0) /\ WellFormed(b0)) =>
            /\ a1.live /\ a1.val = b0.val
            /\ b1.live /\ b1.val \in MovedFrom(b0.val)
       /\ destructor(a1, last.self) = <<Ev("dtor", last.self)>>
       /\ destructor(b1, last.other) = <<Ev("dtor", last.other)>>
       /\ reset(a1, last.self).ev = <<Ev("dtor", last.self)>>
       /\ reset(b1, last.other).ev = <<Ev("dtor", last.other)>>
       /\ ~reset(a1, last.self).obj.live
       /\ ~reset(b1, last.other).obj.live

C14_Witness ==
  /\ last.op = "optional(optional&&)" /\ last.exc = "none"
  /\ pre[last.other].is_initialized_ /\ pre[last.other].live
  /\ pre[last.other].val = MaxVal
  /\ opt[last.self].val = MaxVal
  /\ opt[last.other].is_initialized_ /\ opt[last.other].val = 0

\* C15: an assignment operator (with an engaged source, for the
\* optional-to-optional ones) applied to an engaged destination calls only
\* T's assignment on the destination, no constructor or destructor; applied
\* to a disengaged destination it calls exactly one constructor of T and no
\* assignment.
C15_AssignOrConstruct ==
  ((last.op \in ValueAssignOps)
     \/ (last.op \in OptAssignOps /\ last.self # last.other
           /\ pre[last.other].is_initialized_)) =>
    LET a0 == pre[last.self]
        assign == IF last.op \in MoveOps THEN "move_assign" ELSE "copy_assign"
        ctor == IF last.op \in MoveOps THEN "move_ctor" ELSE "copy_ctor"
    IN /\ a0.is_initialized_ => events = <<Ev(assign, last.self)>>
       /\ ~a0.is_initialized_ => events = <<Ev(ctor, last.self)>>

C15_Witness ==
  /\ last.op = "operator=(T&&)" /\ last.exc = "none"
  /\ pre[last.self].is_initialized_ /\ pre[last.self].live
  /\ events = <<Ev("move_assign", last.self)>>
  /\ opt[last.self].val # pre[last.self].val

\* C16: when T's copy or move constructor throws while an assignment
\* constructs into a disengaged destination, the exception propagates, the
\* destination stays disengaged and the source optional's engagement is
\* unchanged.
C16_ThrowingAssignStaysDisengaged ==
  (last.op \in ValueAssignOps \cup OptAssignOps
     /\ ~pre[last.self].is_initialized_
     /\ Count(events, CtorKinds) > 0) =>
    /\ last.exc = "T" =>
         /\ ~has_value(opt[last.self])
         /\ ~opt[last.self].live
         /\ opt[last.self] = pre[last.self]
    /\ last.other \in Slots =>
         opt[last.other].is_initialized_ = pre[last.other].is_initialized_

C16_Witness ==
  /\ last.op = "operator=(T&&)" /\ last.exc = "T"
  /\ pre[last.self].exists /\ ~pre[last.self].is_initialized_
  /\ events = <<Ev("move_ctor", last.self)>>

\* C17: construction from T&&, move construction, move value-assignment
\* and move optional-assignment call only T's move constructor or move
\* assignment, never T's copy constructor or copy assignment.
C17_MovePathsNeverCopy ==
  last.op \in MoveOps =>
    \A i \in 1..Len(events) :
      events[i][1] \in {"move_ctor", "move_assign", "dtor"}

C17_Witness ==
  /\ last.op = "optional(T&&)" /\ last.exc = "none"
  /\ events = <<Ev("move_ctor", last.self)>>

\* C18: as long as no operation threw, the T objects constructed and not yet
\* destroyed are exactly the ones live in the containers; so once every
\* container is destroyed, constructions equal destructor calls.
C18_ConstructionsEqualDestructions ==
  ~threw =>
    /\ balance = Cardinality({s \in Slots : opt[s].live})
    /\ (\A s \in Slots : ~opt[s].exists) => balance = 0

C18_Witness ==
  /\ ~threw
  /\ \A s \in Slots : ~opt[s].exists
  /\ last.op = "~optional"
  /\ events = <<Ev("dtor", last.self)>>

\* C19: has_value(), value(), both operator* and operator-> change no
\* container and call nothing on T, whether they return or raise;
\* has_value() returns the engagement flag; the lvalue operator* and
\* operator-> never raise, engaged or not.
C19_QueriesArePure ==
  last.op \in QueryOps =>
    /\ opt = pre
    /\ events = <<>>
    /\ last.op = "has_value" => last.retb = pre[last.self].is_initialized_
    /\ last.op \in {"operator*()&", "operator->"} => last.exc = "none"

C19_Witness ==
  /\ last.op = "operator*()&"
  /\ ~pre[last.self].is_initialized_
  /\ last.exc = "none"
====
